---- MODULE Spec2Model ----
(***************************************************************************)
(* Model of the tool-augmented generation loop of the RAG chatbot:         *)
(* backend/ai_generator.py, class AIGenerator, with the tool registry      *)
(* (ToolManager) and the orchestrator (RAGSystem) that use it.             *)
(*                                                                         *)
(* Text is a sequence of string tokens, so that an f-string is the         *)
(* concatenation of its pieces and "contains" is a sub-sequence test.      *)
(* A Python dict is a function from key strings; {**a, "k": v} is          *)
(* ("k" :> v) @@ a.  An Optional argument is a record [present, val].      *)
(***************************************************************************)
EXTENDS Integers, Sequences, FiniteSets, TLC

VARIABLES
    pc,                    \* position of generate_response
    base_params,           \* self.base_params
    query,                 \* argument query
    conversation_history,  \* argument conversation_history (Optional[str])
    tools,                 \* argument tools (Optional[List])
    tool_manager,          \* argument tool_manager (TRUE: an object, FALSE: None)
    api_params,            \* local api_params of generate_response
    messages,              \* local messages of _handle_tool_execution
    round_count,           \* local round_count
    current_response,      \* local current_response (response of generate_response)
    tool_use_blocks,       \* local tool_use_blocks of the running round
    tool_results,          \* local tool_results of the running round
    calls,                 \* keyword arguments of every client.messages.create call
    responses,             \* responses returned by client.messages.create
    executed,              \* every tool_manager.execute_tool invocation
    result,                \* outcome of generate_response
    registry,              \* ToolManager.tools, in insertion order
    registry_calls,        \* the calls made on a ToolManager used on its own
    registry_returned,     \* what the last of these calls returned
    rag_pc,                \* position of the RAGSystem
    rag_calls,             \* the calls RAGSystem.query has made for the running query
    rag_recorded,          \* tool executions and recorded sources of the running query
    rag_result,            \* outcome of the last RAGSystem.query
    queries_done,          \* queries the RAGSystem has handled
    rag_args,              \* arguments of the running RAGSystem.query
    sessions,              \* the exchanges the SessionManager has been given
    api_sessions,          \* session ids create_session has handed to the endpoint
    api_responses,         \* requests to POST /api/query, each with its calls and response
    threads                \* the locals of generate_response calls running side by side

loop_vars == <<pc, base_params, query, conversation_history, tools,
               tool_manager, api_params, messages, round_count, current_response,
               tool_use_blocks, tool_results, calls, responses, executed, result>>

registry_vars == <<registry_calls, registry_returned>>

rag_vars == <<rag_pc, rag_calls, rag_recorded, rag_result, queries_done,
              rag_args, sessions>>

api_vars == <<api_sessions, api_responses>>

vars == <<loop_vars, registry, registry_vars, rag_vars, api_vars, threads, threads>>

----------------------------------------------------------------------------
(* Bounds of the model *)

MaxBlocks == 2        \* content blocks in one model response
MaxRegistryCalls == 4 \* calls made on a ToolManager used on its own
MaxQueries == 2       \* queries handled by one RAGSystem
MaxSessionQueries == 1 \* queries with a session id handled by one RAGSystem
MaxSearchCalls == 3   \* calls made on a ToolManager holding the search tool
MaxRequests == 3      \* requests to POST /api/query

----------------------------------------------------------------------------
(* Program constants *)

MAX_ROUNDS == 2
TEMPERATURE == 0
MAX_TOKENS == 800
MAX_HISTORY == 2
MODEL == "claude-model"
SYSTEM_PROMPT == <<"You are an AI assistant specialized in course materials">>
FALLBACK == <<"Unable to generate a response.">>
TOOL_CHOICE_AUTO == [type |-> "auto"]

----------------------------------------------------------------------------
(* Optional values and Python truthiness *)

None == [present |-> FALSE, val |-> <<>>]
Some(v) == [present |-> TRUE, val |-> v]
Truthy(o) == o.present /\ o.val # <<>>

----------------------------------------------------------------------------
(* The inputs of a query *)

Queries == {<<"What is MCP?">>}
NoSession == [present |-> FALSE, val |-> ""]
SessionIds == {NoSession, Some("session-456")}
Histories == {None, Some(<<>>), Some(<<"User: hi", "Assistant: hello">>)}
ToolDefs == <<[name |-> "search_course_content"], [name |-> "get_course_outline"]>>
ToolsArgs == {None, Some(<<>>), Some(ToolDefs)}

----------------------------------------------------------------------------
(* What the Anthropic API can answer.  The n-th response of a query has a  *)
(* stop reason and up to MaxBlocks content blocks; the block at position j *)
(* carries a payload of its own (text, id, name, input), so that every     *)
(* block of a query can be told from every other.                          *)

StopReasons == {"end_turn", "tool_use"}
BlockTypes == {"text", "tool_use"}
ToolNames == <<"search_course_content", "get_course_outline", "get_weather">>
ToolInputs == <<[query |-> "mcp servers"], [course_name |-> "MCP"], [city |-> "Paris"]>>

Shapes == UNION {[1..k -> BlockTypes] : k \in 0..MaxBlocks}

TextBlock(n, j) ==
    [type |-> "text", text |-> <<"answer_" \o ToString(n) \o "_" \o ToString(j)>>]

ToolUseBlock(n, j) ==
    [type  |-> "tool_use",
     id    |-> "toolu_" \o ToString(n) \o "_" \o ToString(j),
     name  |-> ToolNames[((n + j) % 3) + 1],
     input |-> ToolInputs[((n + j) % 3) + 1]]

Response(n, stop, shape) ==
    [stop_reason |-> stop,
     content |-> [j \in 1..Len(shape) |->
                    IF shape[j] = "text" THEN TextBlock(n, j) ELSE ToolUseBlock(n, j)]]

(* What tool_manager.execute_tool(name, **input) can do: return the text   *)
(* of the tool that ran, or raise with that tool's message.                *)
ExecOutcomes(name) ==
    {[kind |-> "ok", text |-> <<"[" \o name \o "]", "output">>],
     [kind |-> "raise", text |-> <<name \o " failed">>]}

----------------------------------------------------------------------------
(* Pure helpers of the code *)

Returned(t) == [kind |-> "returned", text |-> t, exc |-> ""]
Raised(e) == [kind |-> "raised", text |-> <<>>, exc |-> e]
NoResult == [kind |-> "none", text |-> <<>>, exc |-> ""]
NoResponse == [stop_reason |-> "", content |-> <<>>]
NoReturn == [kind |-> "none", text |-> <<>>]
NothingRecorded == [executions |-> 0, sources |-> <<>>]
NoRagResult == [kind |-> "none", response |-> <<>>, sources |-> <<>>, exc |-> ""]
NoArgs == [query |-> <<>>, session_id |-> [present |-> FALSE, val |-> ""]]

(* the request threads that call one AIGenerator, and the locals of a      *)
(* generate_response call that has not started                             *)
Threads == {1, 2}

IdleThread ==
    [pc |-> "idle", conversation_history |-> None, tools |-> None,
     api_params |-> <<>>, messages |-> <<>>, round_count |-> 0,
     current_response |-> NoResponse, tool_use_blocks |-> <<>>,
     tool_results |-> <<>>, calls |-> <<>>, responses |-> <<>>,
     result |-> NoResult]

(* faulty variant: the history block is added whenever a history is given *)
SystemContent_NotNone(history) ==
    IF history.present
    THEN SYSTEM_PROMPT \o <<"\n\nPrevious conversation:\n">> \o history.val
    ELSE SYSTEM_PROMPT

(* system_content of generate_response *)
SystemContent(history) ==
    IF Truthy(history)
    THEN SYSTEM_PROMPT \o <<"\n\nPrevious conversation:\n">> \o history.val
    ELSE SYSTEM_PROMPT

(* faulty variant: the tool loop is entered whatever the stop reason *)
EntersToolLoop_AnyStopReason(response, tm) == tm

(* faulty variant: the tool loop is entered without a tool_manager *)
EntersToolLoop_IgnoresManager(response, tm) == response.stop_reason = "tool_use"

(* the test that sends generate_response into _handle_tool_execution *)
EntersToolLoop(response, tm) == response.stop_reason = "tool_use" /\ tm

(* response.content[0].text of the direct return *)
DirectText(response) ==
    IF Len(response.content) = 0 THEN Raised("IndexError")
    ELSE IF "text" \in DOMAIN response.content[1]
         THEN Returned(response.content[1].text)
         ELSE Raised("AttributeError")

(* faulty variant: the text of the last text block instead of the first *)
RECURSIVE FirstText_Last(_)
FirstText_Last(blocks) ==
    IF blocks = <<>> THEN FALLBACK
    ELSE IF "text" \in DOMAIN blocks[Len(blocks)] THEN blocks[Len(blocks)].text
         ELSE FirstText_Last(SubSeq(blocks, 1, Len(blocks) - 1))

RECURSIVE FirstText(_)
FirstText(blocks) ==
    IF blocks = <<>> THEN FALLBACK
    ELSE IF "text" \in DOMAIN Head(blocks) THEN Head(blocks).text
         ELSE FirstText(Tail(blocks))

(* _extract_text_response *)
ExtractTextResponse(response) == Returned(FirstText(response.content))

(* [block for block in current_response.content if block.type == "tool_use"] *)
ToolUseBlocks(response) ==
    SelectSeq(response.content, LAMBDA b : b.type = "tool_use")

(* faulty variant: the dispatch adds a parameter of its own *)
DispatchArgs_ExtraParameter(block) ==
    [name |-> block.name, input |-> ("max_results" :> "5") @@ block.input]

(* the arguments of tool_manager.execute_tool(block.name, **block.input) *)
DispatchArgs(block) == [name |-> block.name, input |-> block.input]

(* faulty variant: the text a tool returned is cut short *)
ToolResultText_Truncated(outcome) ==
    IF outcome.kind = "raise"
    THEN <<"Tool execution failed", ": ">> \o outcome.text
    ELSE SubSeq(outcome.text, 1, 1)

(* faulty variant: the text a tool returned is wrapped *)
ToolResultText_Wrapped(outcome) ==
    IF outcome.kind = "raise"
    THEN <<"Tool execution failed", ": ">> \o outcome.text
    ELSE <<"Tool result", ": ">> \o outcome.text

(* faulty variant: the failure text drops the exception message *)
ToolResultText_NoMessage(outcome) ==
    IF outcome.kind = "raise"
    THEN <<"Tool execution failed", ": ">>
    ELSE outcome.text

(* result of one tool execution as the loop sees it *)
ToolResultText(outcome) ==
    IF outcome.kind = "raise"
    THEN <<"Tool execution failed", ": ">> \o outcome.text
    ELSE outcome.text

(* faulty variant: the result is keyed by the tool name instead of the block id *)
ToolResult_KeyedByName(block, outcome) ==
    [type |-> "tool_result", tool_use_id |-> block.name,
     content |-> ToolResultText(outcome)]

ToolResult(block, outcome) ==
    [type |-> "tool_result", tool_use_id |-> block.id, content |-> ToolResultText(outcome)]

(* faulty variant: the round test off by one *)
RoundsRemain_OffByOne(rounds) == rounds <= MAX_ROUNDS

(* faulty variant: the loop has no round limit *)
RoundsRemain_NoLimit(rounds) == TRUE

(* the while condition of _handle_tool_execution *)
RoundsRemain(rounds) == rounds < MAX_ROUNDS

(* the messages of the first call *)
InitialMessages(q) == <<[role |-> "user", content |-> q]>>

(* faulty variant: the assistant message keeps only the tool_use blocks *)
AssistantMessage_ToolUseOnly(response) ==
    [role |-> "assistant", content |-> ToolUseBlocks(response)]

(* the assistant message of a round: the full content of the response *)
AssistantMessage(response) == [role |-> "assistant", content |-> response.content]

(* faulty variant: the tool results are sent under another role *)
ToolResultsMessage_ToolRole(results) == [role |-> "tool", content |-> results]

(* faulty variant: the results are sent last first *)
ToolResultsMessage_Reversed(results) ==
    [role |-> "user",
     content |-> [i \in 1..Len(results) |-> results[Len(results) + 1 - i]]]

(* the user message of a round: its tool results *)
ToolResultsMessage(results) == [role |-> "user", content |-> results]

(* faulty variant: the keys are added whenever a tools argument is given *)
FirstCallTools_NotNone(p, t) ==
    IF t.present
    THEN ("tools" :> t.val) @@ ("tool_choice" :> TOOL_CHOICE_AUTO) @@ p
    ELSE p

(* the tools and tool_choice keys of the first call *)
FirstCallTools(p, t) ==
    IF Truthy(t)
    THEN ("tools" :> t.val) @@ ("tool_choice" :> TOOL_CHOICE_AUTO) @@ p
    ELSE p

(* faulty variant: a follow-up call keeps the tools whatever the round *)
NextCallTools_Always(p, base, rounds) ==
    IF "tools" \in DOMAIN base
    THEN ("tools" :> base["tools"]) @@ ("tool_choice" :> TOOL_CHOICE_AUTO) @@ p
    ELSE p

(* the tools and tool_choice keys of a follow-up call *)
NextCallTools(p, base, rounds) ==
    IF rounds < MAX_ROUNDS /\ "tools" \in DOMAIN base
    THEN ("tools" :> base["tools"]) @@ ("tool_choice" :> TOOL_CHOICE_AUTO) @@ p
    ELSE p

----------------------------------------------------------------------------
(* Initial state: a constructed AIGenerator, no query running *)

Init ==
    /\ pc = "idle"
    /\ base_params = [model |-> MODEL, temperature |-> TEMPERATURE, max_tokens |-> MAX_TOKENS]
    /\ query = <<>>
    /\ conversation_history = None
    /\ tools = None
    /\ tool_manager = FALSE
    /\ api_params = base_params
    /\ messages = <<>>
    /\ round_count = 0
    /\ current_response = NoResponse
    /\ tool_use_blocks = <<>>
    /\ tool_results = <<>>
    /\ calls = <<>>
    /\ responses = <<>>
    /\ executed = <<>>
    /\ result = NoResult
    /\ registry = <<>>
    /\ registry_calls = <<>>
    /\ registry_returned = NoReturn
    /\ rag_pc = "new"
    /\ rag_calls = <<>>
    /\ rag_recorded = NothingRecorded
    /\ rag_result = NoRagResult
    /\ queries_done = 0
    /\ rag_args = NoArgs
    /\ sessions = <<>>
    /\ api_sessions = <<>>
    /\ api_responses = <<>>
    /\ threads = [t \in Threads |-> IdleThread]

----------------------------------------------------------------------------
(* Actions *)

(* generate_response(query, conversation_history, tools, tool_manager) up  *)
(* to the first client.messages.create                                     *)
generate_response(q, h, t, tm) ==
    /\ pc = "idle"
    /\ LET params == FirstCallTools(
                        ("messages" :> InitialMessages(q))
                        @@ ("system" :> SystemContent(h)) @@ base_params, t)
       IN /\ query' = q
          /\ conversation_history' = h
          /\ tools' = t
          /\ tool_manager' = tm
          /\ api_params' = params
          /\ calls' = <<params>>
    /\ pc' = "first_call"
    /\ messages' = <<>>
    /\ round_count' = 0
    /\ current_response' = NoResponse
    /\ tool_use_blocks' = <<>>
    /\ tool_results' = <<>>
    /\ responses' = <<>>
    /\ executed' = <<>>
    /\ result' = NoResult
    /\ UNCHANGED base_params

(* a caller of the generator alone: any query, history, tools, dispatcher *)
GenerateResponse ==
    \E q \in Queries, h \in Histories, t \in ToolsArgs, tm \in BOOLEAN :
        generate_response(q, h, t, tm)

(* the first create returns: the direct return, or the entry of            *)
(* _handle_tool_execution                                                  *)
FirstResponse ==
    /\ pc = "first_call"
    /\ \E stop \in StopReasons, shape \in Shapes :
        LET response == Response(Len(calls), stop, shape) IN
        /\ responses' = Append(responses, response)
        /\ current_response' = response
        /\ IF EntersToolLoop(response, tool_manager)
           THEN /\ pc' = "loop"
                /\ messages' = api_params["messages"]
                /\ round_count' = 0
                /\ UNCHANGED result
           ELSE /\ pc' = "done"
                /\ result' = DirectText(response)
                /\ UNCHANGED <<messages, round_count>>
    /\ UNCHANGED <<base_params, query, conversation_history, tools,
                   tool_manager, api_params, tool_use_blocks, tool_results, calls,
                   executed>>

(* faulty variant: a response without tool_use blocks still makes a round *)
LoopHead_EmptyRound ==
    /\ pc = "loop"
    /\ IF RoundsRemain(round_count)
       THEN /\ tool_use_blocks' = ToolUseBlocks(current_response)
            /\ round_count' = round_count + 1
            /\ messages' = Append(messages, AssistantMessage(current_response))
            /\ tool_results' = <<>>
            /\ pc' = "exec"
            /\ UNCHANGED result
       ELSE /\ result' = ExtractTextResponse(current_response)
            /\ pc' = "done"
            /\ UNCHANGED <<tool_use_blocks, round_count, messages, tool_results>>
    /\ UNCHANGED <<base_params, query, conversation_history, tools,
                   tool_manager, api_params, current_response, calls, responses,
                   executed>>

(* faulty variant: with the rounds used up the loop is not left *)
LoopHead_Spins ==
    /\ pc = "loop"
    /\ IF RoundsRemain(round_count) /\ ToolUseBlocks(current_response) # <<>>
       THEN /\ tool_use_blocks' = ToolUseBlocks(current_response)
            /\ round_count' = round_count + 1
            /\ messages' = Append(messages, AssistantMessage(current_response))
            /\ tool_results' = <<>>
            /\ pc' = "exec"
            /\ UNCHANGED result
       ELSE IF RoundsRemain(round_count)
       THEN /\ tool_use_blocks' = <<>>
            /\ result' = ExtractTextResponse(current_response)
            /\ pc' = "done"
            /\ UNCHANGED <<round_count, messages, tool_results>>
       ELSE UNCHANGED <<pc, tool_use_blocks, result, round_count, messages, tool_results>>
    /\ UNCHANGED <<base_params, query, conversation_history, tools,
                   tool_manager, api_params, current_response, calls, responses,
                   executed>>

(* the head of the while loop: the round test, the tool_use blocks, the    *)
(* assistant message                                                       *)
LoopHead ==
    /\ pc = "loop"
    /\ IF RoundsRemain(round_count) /\ ToolUseBlocks(current_response) # <<>>
       THEN /\ tool_use_blocks' = ToolUseBlocks(current_response)
            /\ round_count' = round_count + 1
            /\ messages' = Append(messages, AssistantMessage(current_response))
            /\ tool_results' = <<>>
            /\ pc' = "exec"
            /\ UNCHANGED result
       ELSE /\ tool_use_blocks' =
                 IF RoundsRemain(round_count) THEN <<>> ELSE tool_use_blocks
            /\ result' = ExtractTextResponse(current_response)
            /\ pc' = "done"
            /\ UNCHANGED <<round_count, messages, tool_results>>
    /\ UNCHANGED <<base_params, query, conversation_history, tools,
                   tool_manager, api_params, current_response, calls, responses,
                   executed>>

(* the block the for loop of the running round handles next *)
NextBlock == tool_use_blocks[Len(tool_results) + 1]

(* faulty variant: a tool that raises ends the for loop of its round *)
ExecuteBlock_FailureEndsRound(block, outcome) ==
    /\ pc = "exec"
    /\ Len(tool_results) < Len(tool_use_blocks)
    /\ block = NextBlock
    /\ executed' = Append(executed,
                          [name |-> DispatchArgs(block).name,
                           input |-> DispatchArgs(block).input,
                           block |-> block, round |-> round_count,
                           outcome |-> outcome])
    /\ tool_results' = Append(tool_results, ToolResult(block, outcome))
    /\ tool_use_blocks' =
            IF outcome.kind = "raise"
            THEN SubSeq(tool_use_blocks, 1, Len(tool_results) + 1)
            ELSE tool_use_blocks
    /\ UNCHANGED <<pc, base_params, query, conversation_history, tools,
                   tool_manager, api_params, messages, round_count, current_response,
                   calls, responses, result>>

(* one iteration of "for block in tool_use_blocks", given what the         *)
(* execute_tool call does                                                  *)
ExecuteBlock(block, outcome) ==
    /\ pc = "exec"
    /\ Len(tool_results) < Len(tool_use_blocks)
    /\ block = NextBlock
    /\ executed' = Append(executed,
                          [name |-> DispatchArgs(block).name,
                           input |-> DispatchArgs(block).input,
                           block |-> block, round |-> round_count,
                           outcome |-> outcome])
    /\ tool_results' = Append(tool_results, ToolResult(block, outcome))
    /\ UNCHANGED <<pc, base_params, query, conversation_history, tools,
                   tool_manager, api_params, messages, round_count, current_response,
                   tool_use_blocks, calls, responses, result>>

(* one iteration with a dispatcher that is any object with execute_tool *)
ExecuteTool ==
    /\ pc = "exec"
    /\ Len(tool_results) < Len(tool_use_blocks)
    /\ \E outcome \in ExecOutcomes(NextBlock.name) : ExecuteBlock(NextBlock, outcome)

(* faulty variant: the next create gets the query and the last round only *)
NextCall_SendsLastRound ==
    /\ pc = "exec"
    /\ Len(tool_results) = Len(tool_use_blocks)
    /\ LET msgs == Append(messages, ToolResultsMessage(tool_results))
           next_params == NextCallTools(
                            ("messages" :> (<<msgs[1]>> \o SubSeq(msgs, Len(msgs) - 1, Len(msgs))))
                            @@ ("system" :> api_params["system"])
                            @@ base_params, api_params, round_count)
       IN /\ messages' = msgs
          /\ calls' = Append(calls, next_params)
    /\ pc' = "next_call"
    /\ UNCHANGED <<base_params, query, conversation_history, tools,
                   tool_manager, api_params, round_count, current_response,
                   tool_use_blocks, tool_results, responses, executed, result>>

(* after the for loop: the user message of tool results and the next create *)
NextCall ==
    /\ pc = "exec"
    /\ Len(tool_results) = Len(tool_use_blocks)
    /\ LET msgs == Append(messages, ToolResultsMessage(tool_results))
           next_params == NextCallTools(
                            ("messages" :> msgs) @@ ("system" :> api_params["system"])
                            @@ base_params, api_params, round_count)
       IN /\ messages' = msgs
          /\ calls' = Append(calls, next_params)
    /\ pc' = "next_call"
    /\ UNCHANGED <<base_params, query, conversation_history, tools,
                   tool_manager, api_params, round_count, current_response,
                   tool_use_blocks, tool_results, responses, executed, result>>

(* a follow-up create returns: break on a non-tool stop reason, else back  *)
(* to the loop test                                                        *)
LoopResponse ==
    /\ pc = "next_call"
    /\ \E stop \in StopReasons, shape \in Shapes :
        LET response == Response(Len(calls), stop, shape) IN
        /\ responses' = Append(responses, response)
        /\ current_response' = response
        /\ IF response.stop_reason # "tool_use"
           THEN /\ result' = ExtractTextResponse(response)
                /\ pc' = "done"
           ELSE /\ pc' = "loop"
                /\ UNCHANGED result
    /\ UNCHANGED <<base_params, query, conversation_history, tools,
                   tool_manager, api_params, messages, round_count, tool_use_blocks,
                   tool_results, calls, executed>>

(* faulty variant: a failed model call is swallowed and the fallback text  *)
(* is returned                                                             *)
ModelCallFails_Swallowed ==
    /\ pc \in {"first_call", "next_call"}
    /\ result' = Returned(FALLBACK)
    /\ pc' = "done"
    /\ UNCHANGED <<base_params, query, conversation_history, tools, tool_manager,
                   api_params, messages, round_count, current_response,
                   tool_use_blocks, tool_results, calls, responses, executed>>

(* client.messages.create raises: the exception leaves generate_response *)
ModelCallFails ==
    /\ pc \in {"first_call", "next_call"}
    /\ result' = Raised("APIError")
    /\ pc' = "done"
    /\ UNCHANGED <<base_params, query, conversation_history, tools, tool_manager,
                   api_params, messages, round_count, current_response,
                   tool_use_blocks, tool_results, calls, responses, executed>>

(* generate_response has returned or raised: its locals are discarded and  *)
(* the generator is ready for the next query                               *)
Return ==
    /\ pc = "done"
    /\ pc' = "idle"
    /\ query' = <<>>
    /\ conversation_history' = None
    /\ tools' = None
    /\ tool_manager' = FALSE
    /\ api_params' = base_params
    /\ messages' = <<>>
    /\ round_count' = 0
    /\ current_response' = NoResponse
    /\ tool_use_blocks' = <<>>
    /\ tool_results' = <<>>
    /\ calls' = <<>>
    /\ responses' = <<>>
    /\ executed' = <<>>
    /\ result' = NoResult
    /\ UNCHANGED base_params

(* the generator on its own: no registry, no orchestrator *)
Next ==
    \/ GenerateResponse /\ UNCHANGED <<registry, registry_vars, api_vars, threads, rag_vars>>
    \/ FirstResponse /\ UNCHANGED <<registry, registry_vars, api_vars, threads, rag_vars>>
    \/ LoopHead /\ UNCHANGED <<registry, registry_vars, api_vars, threads, rag_vars>>
    \/ ExecuteTool /\ UNCHANGED <<registry, registry_vars, api_vars, threads, rag_vars>>
    \/ NextCall /\ UNCHANGED <<registry, registry_vars, api_vars, threads, rag_vars>>
    \/ LoopResponse /\ UNCHANGED <<registry, registry_vars, api_vars, threads, rag_vars>>
    \/ ModelCallFails /\ UNCHANGED <<registry, registry_vars, api_vars, threads, rag_vars>>
    \/ Return /\ UNCHANGED <<registry, registry_vars, api_vars, threads, rag_vars>>

Spec == Init /\ [][Next]_vars

(* a step of a running generate_response: every model call and every tool  *)
(* execution returns or raises, and the interpreter goes on                *)
Step ==
    \/ FirstResponse
    \/ LoopHead
    \/ ExecuteTool
    \/ NextCall
    \/ LoopResponse
    \/ ModelCallFails

SpecLive == Spec /\ WF_vars(Step /\ UNCHANGED <<registry, registry_vars, api_vars, threads, rag_vars>>)

----------------------------------------------------------------------------
(* Two generate_response calls running side by side on one AIGenerator,    *)
(* as two request threads make them.  Each call has its own locals;        *)
(* self.base_params is the one object both read.  A dispatcher is always   *)
(* supplied, and each thread has a query, a history and tools of its own.  *)

generator_locals == <<pc, query, conversation_history, tools, tool_manager, api_params,
                      messages, round_count, current_response, tool_use_blocks,
                      tool_results, calls, responses, executed, result>>

ThreadQuery(t) == IF t = 1 THEN <<"What is MCP?">> ELSE <<"What is RAG?">>
ThreadHistories(t) == {None, Some(<<"User: hi from " \o ToString(t)>>)}
ThreadTools(t) == {None, Some(<<ToolDefs[t]>>)}

(* the responses the API can give to call n of thread t: one block each *)
ThreadResponses(t, n) ==
    {Response(10 * t + n, stop, <<type>>) : stop \in StopReasons, type \in BlockTypes}

(* faulty variant: api_params is self.base_params itself, updated in place *)
thread_generate_InPlace(t, h, tl) ==
    /\ threads[t].pc = "idle"
    /\ LET params == FirstCallTools(
                        ("messages" :> InitialMessages(ThreadQuery(t)))
                        @@ ("system" :> SystemContent(h)) @@ base_params, tl)
       IN /\ threads' = [threads EXCEPT ![t] =
                [IdleThread EXCEPT !.pc = "first_call", !.conversation_history = h,
                                   !.tools = tl, !.api_params = params,
                                   !.calls = <<params>>]]
          /\ base_params' = params

(* generate_response of thread t up to its first client.messages.create *)
thread_generate(t, h, tl) ==
    /\ threads[t].pc = "idle"
    /\ LET params == FirstCallTools(
                        ("messages" :> InitialMessages(ThreadQuery(t)))
                        @@ ("system" :> SystemContent(h)) @@ base_params, tl)
       IN threads' = [threads EXCEPT ![t] =
                [IdleThread EXCEPT !.pc = "first_call", !.conversation_history = h,
                                   !.tools = tl, !.api_params = params,
                                   !.calls = <<params>>]]
    /\ UNCHANGED base_params

ThreadGenerate ==
    \E t \in Threads : \E h \in ThreadHistories(t), tl \in ThreadTools(t) :
        thread_generate(t, h, tl)

(* the first create of a thread returns *)
ThreadFirstResponse ==
    \E t \in Threads :
        /\ threads[t].pc = "first_call"
        /\ \E response \in ThreadResponses(t, 1) :
            threads' = [threads EXCEPT ![t] =
                IF EntersToolLoop(response, TRUE)
                THEN [@ EXCEPT !.pc = "loop", !.responses = <<response>>,
                               !.current_response = response,
                               !.messages = threads[t].api_params["messages"],
                               !.round_count = 0]
                ELSE [@ EXCEPT !.pc = "done", !.responses = <<response>>,
                               !.current_response = response,
                               !.result = DirectText(response)]]
        /\ UNCHANGED base_params

(* the head of the while loop of a thread *)
ThreadLoopHead ==
    \E t \in Threads :
        LET th == threads[t] IN
        /\ th.pc = "loop"
        /\ threads' = [threads EXCEPT ![t] =
            IF RoundsRemain(th.round_count) /\ ToolUseBlocks(th.current_response) # <<>>
            THEN [@ EXCEPT !.pc = "exec",
                           !.tool_use_blocks = ToolUseBlocks(th.current_response),
                           !.round_count = th.round_count + 1,
                           !.messages = Append(th.messages,
                                               AssistantMessage(th.current_response)),
                           !.tool_results = <<>>]
            ELSE [@ EXCEPT !.pc = "done",
                           !.result = ExtractTextResponse(th.current_response)]]
        /\ UNCHANGED base_params

(* one iteration of the for loop of a thread *)
ThreadExecuteTool ==
    \E t \in Threads :
        LET th == threads[t]
            block == th.tool_use_blocks[Len(th.tool_results) + 1]
        IN
        /\ th.pc = "exec"
        /\ Len(th.tool_results) < Len(th.tool_use_blocks)
        /\ \E outcome \in ExecOutcomes(DispatchArgs(block).name) :
            threads' = [threads EXCEPT ![t].tool_results =
                            Append(th.tool_results, ToolResult(block, outcome))]
        /\ UNCHANGED base_params

(* the user message of tool results of a thread and its next create *)
ThreadNextCall ==
    \E t \in Threads :
        LET th == threads[t]
            msgs == Append(th.messages, ToolResultsMessage(th.tool_results))
            next_params == NextCallTools(
                             ("messages" :> msgs) @@ ("system" :> th.api_params["system"])
                             @@ base_params, th.api_params, th.round_count)
        IN
        /\ th.pc = "exec"
        /\ Len(th.tool_results) = Len(th.tool_use_blocks)
        /\ threads' = [threads EXCEPT ![t] =
                [@ EXCEPT !.pc = "next_call", !.messages = msgs,
                          !.calls = Append(th.calls, next_params)]]
        /\ UNCHANGED base_params

(* a follow-up create of a thread returns *)
ThreadLoopResponse ==
    \E t \in Threads :
        LET th == threads[t] IN
        /\ th.pc = "next_call"
        /\ \E response \in ThreadResponses(t, Len(th.calls)) :
            threads' = [threads EXCEPT ![t] =
                IF response.stop_reason # "tool_use"
                THEN [@ EXCEPT !.pc = "done", !.current_response = response,
                               !.responses = Append(th.responses, response),
                               !.result = ExtractTextResponse(response)]
                ELSE [@ EXCEPT !.pc = "loop", !.current_response = response,
                               !.responses = Append(th.responses, response)]]
        /\ UNCHANGED base_params

(* a create of a thread raises *)
ThreadCallFails ==
    \E t \in Threads :
        /\ threads[t].pc \in {"first_call", "next_call"}
        /\ threads' = [threads EXCEPT ![t] =
                [@ EXCEPT !.pc = "done", !.result = Raised("APIError")]]
        /\ UNCHANGED base_params

(* generate_response of a thread has returned or raised *)
ThreadReturn ==
    \E t \in Threads :
        /\ threads[t].pc = "done"
        /\ threads' = [threads EXCEPT ![t] = IdleThread]
        /\ UNCHANGED base_params

NextThreads ==
    \/ ThreadGenerate /\ UNCHANGED <<generator_locals, registry, registry_vars, rag_vars, api_vars>>
    \/ ThreadFirstResponse /\ UNCHANGED <<generator_locals, registry, registry_vars, rag_vars, api_vars>>
    \/ ThreadLoopHead /\ UNCHANGED <<generator_locals, registry, registry_vars, rag_vars, api_vars>>
    \/ ThreadExecuteTool /\ UNCHANGED <<generator_locals, registry, registry_vars, rag_vars, api_vars>>
    \/ ThreadNextCall /\ UNCHANGED <<generator_locals, registry, registry_vars, rag_vars, api_vars>>
    \/ ThreadLoopResponse /\ UNCHANGED <<generator_locals, registry, registry_vars, rag_vars, api_vars>>
    \/ ThreadCallFails /\ UNCHANGED <<generator_locals, registry, registry_vars, rag_vars, api_vars>>
    \/ ThreadReturn /\ UNCHANGED <<generator_locals, registry, registry_vars, rag_vars, api_vars>>

SpecThreads == Init /\ [][NextThreads]_vars

----------------------------------------------------------------------------
(* The tool registry: ToolManager and the tools registered in it.  A tool  *)
(* is an object with a definition (its name), an identity and the sources  *)
(* its last successful execution recorded.                                 *)

Tool(name, version) == [name |-> name, version |-> version, last_sources |-> <<>>]

ToolPool == {Tool(ToolNames[i], v) : i \in 1..Len(ToolNames), v \in 1..2}

(* a citation recorded by a tool: display text and link; tag tells apart   *)
(* the retrieval results of different executions                           *)
Source(name, tag) ==
    [text |-> "MCP - Lesson " \o ToString(tag),
     link |-> "https://example.com/" \o name \o "/" \o ToString(tag)]

(* what a tool's execute method can do: return its text and record its    *)
(* sources, or raise                                                       *)
ToolOutcomes(tool, input, tag) ==
    {[kind |-> "ok", text |-> <<"[" \o tool.name \o "]", "output">>,
      sources |-> Some(<<Source(tool.name, tag)>>)],
     [kind |-> "raise", text |-> <<tool.name \o " failed">>, sources |-> None]}

RegisteredAt(reg, name) == {i \in 1..Len(reg) : reg[i].name = name}

NotFoundText(name) == <<"Tool '", name, "' not found">>

(* faulty variant: the first registration of a name wins *)
register_tool_KeepsFirst(reg, tool) ==
    IF RegisteredAt(reg, tool.name) # {}
    THEN reg
    ELSE Append(reg, tool)

(* faulty variant: a tool is put in front of the tools registered before *)
register_tool_InFront(reg, tool) ==
    IF RegisteredAt(reg, tool.name) # {}
    THEN [reg EXCEPT ![CHOOSE i \in RegisteredAt(reg, tool.name) : TRUE] = tool]
    ELSE <<tool>> \o reg

(* ToolManager.register_tool: self.tools[name] = tool *)
register_tool(reg, tool) ==
    IF RegisteredAt(reg, tool.name) # {}
    THEN [reg EXCEPT ![CHOOSE i \in RegisteredAt(reg, tool.name) : TRUE] = tool]
    ELSE Append(reg, tool)

(* ToolManager.get_tool_definitions *)
get_tool_definitions(reg) == [i \in 1..Len(reg) |-> [name |-> reg[i].name]]

(* ToolManager.execute_tool(name, **input): the outcomes the call can      *)
(* have, each with the registry it leaves                                  *)
execute_tool(reg, name, input, tag) ==
    IF RegisteredAt(reg, name) = {}
    THEN {[outcome |-> [kind |-> "ok", text |-> NotFoundText(name)],
           recorded |-> None, registry |-> reg]}
    ELSE LET i == CHOOSE k \in RegisteredAt(reg, name) : TRUE IN
         {[outcome |-> [kind |-> o.kind, text |-> o.text],
           recorded |-> o.sources,
           registry |-> IF o.sources.present
                        THEN [reg EXCEPT ![i].last_sources = o.sources.val]
                        ELSE reg] : o \in ToolOutcomes(reg[i], input, tag)}

(* faulty variant: the sources of the first tool that has any *)
RECURSIVE get_last_sources_FirstTool(_)
get_last_sources_FirstTool(reg) ==
    IF reg = <<>> THEN <<>>
    ELSE IF Head(reg).last_sources # <<>> THEN Head(reg).last_sources
         ELSE get_last_sources_FirstTool(Tail(reg))

(* ToolManager.get_last_sources: the sources of all tools, in registry order *)
RECURSIVE get_last_sources(_)
get_last_sources(reg) ==
    IF reg = <<>> THEN <<>>
    ELSE Head(reg).last_sources \o get_last_sources(Tail(reg))

(* faulty variant: only the first tool's sources are cleared *)
reset_sources_FirstOnly(reg) ==
    [i \in 1..Len(reg) |-> IF i = 1 THEN [reg[i] EXCEPT !.last_sources = <<>>] ELSE reg[i]]

(* ToolManager.reset_sources *)
reset_sources(reg) == [i \in 1..Len(reg) |-> [reg[i] EXCEPT !.last_sources = <<>>]]

(* A ToolManager used on its own, as the registry tests use it *)

RegisterTool ==
    /\ Len(registry_calls) < MaxRegistryCalls
    /\ \E tool \in ToolPool :
        /\ registry' = register_tool(registry, tool)
        /\ registry_calls' = Append(registry_calls,
                                    [op |-> "register_tool", name |-> tool.name,
                                     version |-> tool.version])
    /\ registry_returned' = NoReturn
    /\ UNCHANGED <<loop_vars, rag_vars, api_vars, threads, threads>>

RegistryExecute ==
    /\ Len(registry_calls) < MaxRegistryCalls
    /\ \E i \in 1..Len(ToolNames) :
       \E r \in execute_tool(registry, ToolNames[i], ToolInputs[i], Len(registry_calls) + 1) :
        /\ registry' = r.registry
        /\ registry_returned' = r.outcome
        /\ registry_calls' = Append(registry_calls,
                                    [op |-> "execute_tool", name |-> ToolNames[i]])
    /\ UNCHANGED <<loop_vars, rag_vars, api_vars, threads, threads>>

ResetSources ==
    /\ Len(registry_calls) < MaxRegistryCalls
    /\ registry' = reset_sources(registry)
    /\ registry_calls' = Append(registry_calls, [op |-> "reset_sources", name |-> ""])
    /\ registry_returned' = NoReturn
    /\ UNCHANGED <<loop_vars, rag_vars, api_vars, threads, threads>>

NextRegistry ==
    \/ RegisterTool
    \/ RegistryExecute
    \/ ResetSources

SpecRegistry == Init /\ [][NextRegistry]_vars

----------------------------------------------------------------------------
(* The search tool: CourseSearchTool.execute(query, course_name,           *)
(* lesson_number) over what VectorStore.search returns.                    *)

NoCourse == [present |-> FALSE, val |-> ""]
NoLesson == [present |-> FALSE, val |-> 0]
NoError == [present |-> FALSE, val |-> ""]

SearchInputs ==
    {[query |-> "mcp servers", course_name |-> c, lesson_number |-> l] :
        c \in {NoCourse, Some("MCP")}, l \in {NoLesson, Some(5)}}

Documents == <<"MCP servers expose tools.", "MCP clients call servers.">>
Metadata == <<[course_title |-> "MCP", lesson_number |-> 1],
              [course_title |-> "MCP", lesson_number |-> 2]>>

(* SearchResults: documents and metadata in parallel, an optional error *)
SearchResultsOf(k, error) ==
    [documents |-> SubSeq(Documents, 1, k), metadata |-> SubSeq(Metadata, 1, k),
     error |-> error]

BackendResults ==
    {SearchResultsOf(k, e) :
        k \in 0..Len(Documents), e \in {NoError, Some("No course found matching 'MCP'")}}

SourceOf(md) ==
    [text |-> md.course_title \o " - Lesson " \o ToString(md.lesson_number),
     link |-> "https://example.com/" \o md.course_title \o "/"
              \o ToString(md.lesson_number)]

(* the message of a search without documents, naming the filters given *)
NoContentText(input) ==
    <<"No relevant content found">>
    \o (IF input.course_name.present
        THEN <<" in course '", input.course_name.val, "'">> ELSE <<>>)
    \o (IF input.lesson_number.present
        THEN <<" in ", "lesson " \o ToString(input.lesson_number.val)>> ELSE <<>>)
    \o <<".">>

(* the labelled blocks of the documents, joined by blank lines *)
RECURSIVE FormatResults(_, _)
FormatResults(documents, metadata) ==
    IF documents = <<>> THEN <<>>
    ELSE <<"[" \o SourceOf(Head(metadata)).text \o "]\n", Head(documents)>>
         \o (IF Len(documents) > 1 THEN <<"\n\n">> ELSE <<>>)
         \o FormatResults(Tail(documents), Tail(metadata))

(* faulty variant: documents are rendered even when the error is set *)
search_execute_DocumentsFirst(tool, input, results) ==
    IF results.documents # <<>>
    THEN [text |-> FormatResults(results.documents, results.metadata),
          last_sources |-> [i \in 1..Len(results.metadata) |-> SourceOf(results.metadata[i])]]
    ELSE IF results.error.present
    THEN [text |-> <<results.error.val>>, last_sources |-> tool.last_sources]
    ELSE [text |-> NoContentText(input), last_sources |-> tool.last_sources]

(* faulty variant: the empty-result message leaves out the lesson filter *)
search_execute_NoLessonFilter(tool, input, results) ==
    IF results.error.present
    THEN [text |-> <<results.error.val>>, last_sources |-> tool.last_sources]
    ELSE IF results.documents = <<>>
    THEN [text |-> NoContentText([input EXCEPT !.lesson_number = NoLesson]),
          last_sources |-> tool.last_sources]
    ELSE [text |-> FormatResults(results.documents, results.metadata),
          last_sources |-> [i \in 1..Len(results.metadata) |-> SourceOf(results.metadata[i])]]

(* faulty variant: every execution starts by clearing the tool's sources *)
search_execute_ClearsFirst(tool, input, results) ==
    IF results.error.present
    THEN [text |-> <<results.error.val>>, last_sources |-> <<>>]
    ELSE IF results.documents = <<>>
    THEN [text |-> NoContentText(input), last_sources |-> <<>>]
    ELSE [text |-> FormatResults(results.documents, results.metadata),
          last_sources |-> [i \in 1..Len(results.metadata) |-> SourceOf(results.metadata[i])]]

(* CourseSearchTool.execute: the text returned and the tool's sources      *)
(* afterwards                                                              *)
search_execute(tool, input, results) ==
    IF results.error.present
    THEN [text |-> <<results.error.val>>, last_sources |-> tool.last_sources]
    ELSE IF results.documents = <<>>
    THEN [text |-> NoContentText(input), last_sources |-> tool.last_sources]
    ELSE [text |-> FormatResults(results.documents, results.metadata),
          last_sources |-> [i \in 1..Len(results.metadata) |-> SourceOf(results.metadata[i])]]

(* A ToolManager holding the search tool, as the search tests use it *)

SearchToolRegistered ==
    /\ registry = <<>>
    /\ registry' = register_tool(registry, Tool(ToolNames[1], 1))
    /\ UNCHANGED <<loop_vars, registry_vars, api_vars, threads, rag_vars>>

SearchExecute ==
    /\ registry # <<>>
    /\ Len(registry_calls) < MaxSearchCalls
    /\ \E input \in SearchInputs, results \in BackendResults :
        LET out == search_execute(registry[1], input, results) IN
        /\ registry' = [registry EXCEPT ![1].last_sources = out.last_sources]
        /\ registry_returned' = [kind |-> "ok", text |-> out.text]
        /\ registry_calls' = Append(registry_calls,
                                    [op |-> "execute_tool", name |-> registry[1].name,
                                     input |-> input, results |-> results])
    /\ UNCHANGED <<loop_vars, rag_vars, api_vars, threads, threads>>

SearchReset ==
    /\ registry # <<>>
    /\ Len(registry_calls) < MaxSearchCalls
    /\ registry' = reset_sources(registry)
    /\ registry_calls' = Append(registry_calls, [op |-> "reset_sources", name |-> ""])
    /\ registry_returned' = NoReturn
    /\ UNCHANGED <<loop_vars, rag_vars, api_vars, threads, threads>>

NextSearch ==
    \/ SearchToolRegistered
    \/ SearchExecute
    \/ SearchReset

SpecSearch == Init /\ [][NextSearch]_vars

----------------------------------------------------------------------------
(* The orchestrator: RAGSystem, which owns one ToolManager and one         *)
(* AIGenerator and handles one query at a time.                            *)

Prompt(q) == <<"Answer this question about course materials: ">> \o q

(* tells apart what the retrieval backend returns to different executions *)
SourceTag == 10 * (queries_done + 1) + Len(executed) + 1

(* RAGSystem.__init__: both tools are registered *)
RagInit ==
    /\ rag_pc = "new"
    /\ registry' = register_tool(register_tool(registry, Tool(ToolNames[1], 1)),
                                 Tool(ToolNames[2], 1))
    /\ rag_pc' = "ready"
    /\ UNCHANGED <<loop_vars, registry_vars, api_vars, threads, rag_calls, rag_recorded, rag_result,
                   queries_done, rag_args, sessions>>

(* the exchanges of one session, oldest first *)
ExchangesOf(store, sid) == SelectSeq(store, LAMBDA e : e.session_id = sid)

RECURSIVE Rendered(_)
Rendered(exchanges) ==
    IF exchanges = <<>> THEN <<>>
    ELSE <<"User: ">> \o Head(exchanges).query
         \o <<"\nAssistant: ">> \o Head(exchanges).answer
         \o (IF Len(exchanges) > 1 THEN <<"\n">> ELSE <<>>)
         \o Rendered(Tail(exchanges))

(* SessionManager.get_conversation_history: the last MAX_HISTORY exchanges *)
(* of the session as text, None when it has none                           *)
get_conversation_history(store, sid) ==
    LET mine == ExchangesOf(store, sid)
        kept == SubSeq(mine, IF Len(mine) > MAX_HISTORY THEN Len(mine) - MAX_HISTORY + 1 ELSE 1,
                       Len(mine))
    IN IF mine = <<>> THEN None ELSE Some(Rendered(kept))

(* faulty variant: the exchange holds the prompt sent to the model instead  *)
(* of the user's query                                                     *)
add_exchange_Prompt(store, sid, q, answer) ==
    Append(store, [session_id |-> sid, query |-> Prompt(q), answer |-> answer])

(* SessionManager.add_exchange *)
add_exchange(store, sid, q, answer) ==
    Append(store, [session_id |-> sid, query |-> q, answer |-> answer])

(* "if session_id": a session id that is given and not empty *)
HasSession(sid) == sid.present /\ sid.val # ""

(* RAGSystem.query(query, session_id) up to its generate_response call *)
rag_system_query(q, sid) ==
    /\ rag_pc = "ready"
    /\ generate_response(Prompt(q),
                         IF HasSession(sid) THEN get_conversation_history(sessions, sid.val)
                         ELSE None,
                         Some(get_tool_definitions(registry)), TRUE)
    /\ rag_args' = [query |-> q, session_id |-> sid]
    /\ rag_pc' = "generating"
    /\ rag_calls' = (IF HasSession(sid) THEN <<"get_conversation_history">> ELSE <<>>)
                    \o <<"generate_response">>
    /\ rag_recorded' = NothingRecorded
    /\ rag_result' = NoRagResult
    /\ UNCHANGED <<registry, registry_vars, api_vars, threads, queries_done, sessions>>

(* a query without a session id *)
RagQuery ==
    /\ queries_done < MaxQueries
    /\ \E q \in Queries : rag_system_query(q, NoSession)

(* a query with or without a session id *)
SessionQuery ==
    /\ queries_done < MaxSessionQueries
    /\ \E q \in Queries, sid \in SessionIds : rag_system_query(q, sid)

(* one iteration of the for loop, the dispatcher being the ToolManager *)
RagExecuteTool ==
    /\ rag_pc = "generating"
    /\ pc = "exec"
    /\ Len(tool_results) < Len(tool_use_blocks)
    /\ \E r \in execute_tool(registry, DispatchArgs(NextBlock).name,
                             DispatchArgs(NextBlock).input, SourceTag) :
        /\ ExecuteBlock(NextBlock, r.outcome)
        /\ registry' = r.registry
        /\ rag_recorded' =
             [executions |-> rag_recorded.executions + 1,
              sources |-> IF r.recorded.present
                          THEN rag_recorded.sources \o r.recorded.val
                          ELSE rag_recorded.sources]
    /\ UNCHANGED <<registry_vars, api_vars, threads, rag_pc, rag_calls, rag_result, queries_done,
                   rag_args, sessions>>

(* generate_response has returned: the sources are read, then reset, the   *)
(* exchange is added to the session, and query returns the answer with     *)
(* the sources                                                             *)
RagReturn ==
    /\ rag_pc = "generating"
    /\ result.kind = "returned"
    /\ Return
    /\ rag_calls' = rag_calls \o <<"get_last_sources", "reset_sources">>
                    \o (IF HasSession(rag_args.session_id) THEN <<"add_exchange">> ELSE <<>>)
    /\ sessions' = IF HasSession(rag_args.session_id)
                   THEN add_exchange(sessions, rag_args.session_id.val, rag_args.query,
                                     result.text)
                   ELSE sessions
    /\ rag_result' = [kind |-> "returned", response |-> result.text,
                      sources |-> get_last_sources(registry), exc |-> ""]
    /\ registry' = reset_sources(registry)
    /\ rag_pc' = "ready"
    /\ queries_done' = queries_done + 1
    /\ UNCHANGED <<registry_vars, api_vars, threads, rag_recorded, rag_args>>

(* generate_response has raised: the exception leaves query *)
RagRaise ==
    /\ rag_pc = "generating"
    /\ result.kind = "raised"
    /\ Return
    /\ rag_result' = [kind |-> "raised", response |-> <<>>, sources |-> <<>>,
                      exc |-> result.exc]
    /\ rag_pc' = "ready"
    /\ queries_done' = queries_done + 1
    /\ UNCHANGED <<registry, registry_vars, api_vars, threads, rag_calls, rag_recorded, rag_args,
                   sessions>>

NextRag ==
    \/ RagInit
    \/ RagQuery
    \/ FirstResponse /\ UNCHANGED <<registry, registry_vars, api_vars, threads, rag_vars>>
    \/ LoopHead /\ UNCHANGED <<registry, registry_vars, api_vars, threads, rag_vars>>
    \/ RagExecuteTool
    \/ NextCall /\ UNCHANGED <<registry, registry_vars, api_vars, threads, rag_vars>>
    \/ LoopResponse /\ UNCHANGED <<registry, registry_vars, api_vars, threads, rag_vars>>
    \/ ModelCallFails /\ UNCHANGED <<registry, registry_vars, api_vars, threads, rag_vars>>
    \/ RagReturn
    \/ RagRaise

SpecRag == Init /\ [][NextRag]_vars

(* the orchestrator handling queries of a session *)
NextSession ==
    \/ RagInit
    \/ SessionQuery
    \/ FirstResponse /\ UNCHANGED <<registry, registry_vars, api_vars, threads, rag_vars>>
    \/ LoopHead /\ UNCHANGED <<registry, registry_vars, api_vars, threads, rag_vars>>
    \/ RagExecuteTool
    \/ NextCall /\ UNCHANGED <<registry, registry_vars, api_vars, threads, rag_vars>>
    \/ LoopResponse /\ UNCHANGED <<registry, registry_vars, api_vars, threads, rag_vars>>
    \/ ModelCallFails /\ UNCHANGED <<registry, registry_vars, api_vars, threads, rag_vars>>
    \/ RagReturn
    \/ RagRaise

SpecSession == Init /\ [][NextSession]_vars

----------------------------------------------------------------------------
(* The query endpoint: query_documents, POST /api/query, over a RAGSystem  *)
(* whose session_manager.create_session and query return or raise.         *)

Requests ==
    {[query |-> <<"What is MCP?">>, session_id |-> sid] :
        sid \in {NoSession, Some(""), Some("existing-session")}}

CreateOutcomes(n) ==
    {[kind |-> "ok", value |-> "session_" \o ToString(n), msg |-> ""],
     [kind |-> "raise", value |-> "", msg |-> "Session store unavailable"]}

QueryOutcomes ==
    {[kind |-> "ok", answer |-> <<"Test answer">>,
      sources |-> <<[text |-> "MCP - Lesson 1", link |-> "https://example.com/MCP/1"]>>,
      msg |-> ""],
     [kind |-> "raise", answer |-> <<>>, sources |-> <<>>, msg |-> "Internal error"]}

(* QueryResponse(answer, sources, session_id), sent with status 200 *)
QueryResponse(answer, srcs, sid) ==
    [kind |-> "response", status |-> 200, answer |-> answer, sources |-> srcs,
     session_id |-> sid, detail |-> ""]

(* HTTPException(status_code=500, detail=str(e)) *)
HTTPException(detail) ==
    [kind |-> "response", status |-> 500, answer |-> <<>>, sources |-> <<>>,
     session_id |-> "", detail |-> detail]

(* an exception that leaves the endpoint *)
Escaped(msg) ==
    [kind |-> "escaped", status |-> 0, answer |-> <<>>, sources |-> <<>>,
     session_id |-> "", detail |-> msg]

CreateSessionCall == [op |-> "create_session", query |-> <<>>, session_id |-> ""]
QueryCall(q, sid) == [op |-> "query", query |-> q, session_id |-> sid]

(* faulty variant: create_session is called outside the try block *)
query_documents_CreateOutsideTry(request, created, queried) ==
    LET missing == ~(request.session_id.present /\ request.session_id.val # "")
        sid == IF missing THEN created.value ELSE request.session_id.val
        made == IF missing THEN <<CreateSessionCall>> ELSE <<>>
    IN IF missing /\ created.kind = "raise"
       THEN [calls |-> made, response |-> Escaped(created.msg)]
       ELSE IF queried.kind = "raise"
       THEN [calls |-> Append(made, QueryCall(request.query, sid)),
             response |-> HTTPException(queried.msg)]
       ELSE [calls |-> Append(made, QueryCall(request.query, sid)),
             response |-> QueryResponse(queried.answer, queried.sources, sid)]

(* faulty variant: a session is created for every request *)
query_documents_AlwaysCreates(request, created, queried) ==
    IF created.kind = "raise"
    THEN [calls |-> <<CreateSessionCall>>, response |-> HTTPException(created.msg)]
    ELSE IF queried.kind = "raise"
    THEN [calls |-> <<CreateSessionCall, QueryCall(request.query, created.value)>>,
          response |-> HTTPException(queried.msg)]
    ELSE [calls |-> <<CreateSessionCall, QueryCall(request.query, created.value)>>,
          response |-> QueryResponse(queried.answer, queried.sources, created.value)]

(* query_documents(request): the calls it makes and what the client gets,  *)
(* given what create_session and rag_system.query do when called           *)
query_documents(request, created, queried) ==
    LET missing == ~(request.session_id.present /\ request.session_id.val # "")
        sid == IF missing THEN created.value ELSE request.session_id.val
        made == IF missing THEN <<CreateSessionCall>> ELSE <<>>
    IN IF missing /\ created.kind = "raise"
       THEN [calls |-> made, response |-> HTTPException(created.msg)]
       ELSE IF queried.kind = "raise"
       THEN [calls |-> Append(made, QueryCall(request.query, sid)),
             response |-> HTTPException(queried.msg)]
       ELSE [calls |-> Append(made, QueryCall(request.query, sid)),
             response |-> QueryResponse(queried.answer, queried.sources, sid)]

(* one request to POST /api/query *)
QueryDocuments ==
    /\ Len(api_responses) < MaxRequests
    /\ \E request \in Requests, created \in CreateOutcomes(Len(api_sessions) + 1),
          queried \in QueryOutcomes :
        LET out == query_documents(request, created, queried)
            last == out.calls[Len(out.calls)]
            raised == IF last.op = "create_session" THEN created.msg
                      ELSE IF queried.kind = "raise" THEN queried.msg ELSE ""
        IN
        /\ api_responses' = Append(api_responses,
                                   [request |-> request, calls |-> out.calls,
                                    response |-> out.response, raised |-> raised])
        /\ api_sessions' =
             IF out.calls[1].op = "create_session" /\ created.kind = "ok"
             THEN Append(api_sessions, created.value)
             ELSE api_sessions
    /\ UNCHANGED <<loop_vars, registry, registry_vars, rag_vars, threads>>

NextApi == QueryDocuments

SpecApi == Init /\ [][NextApi]_vars

----------------------------------------------------------------------------
(* Vocabulary of the properties *)

(* generate_response has ended and every model call of the query was       *)
(* answered (no client.messages.create raised)                             *)
Completed == pc = "done" /\ Len(responses) = Len(calls)

ToolUsePositions(r) == {j \in 1..Len(r.content) : r.content[j].type = "tool_use"}

(* a response that requests tools: stop reason tool_use and a tool_use block *)
RequestsTools(r) ==
    /\ r.stop_reason = "tool_use"
    /\ ToolUsePositions(r) # {}

TextPositions(r) == {j \in 1..Len(r.content) : r.content[j].type = "text"}
LeastOf(S) == CHOOSE m \in S : \A o \in S : m <= o

(* the text of a response: that of its first text block, else the fallback *)
ResponseText(r) ==
    IF TextPositions(r) = {} THEN FALLBACK
    ELSE r.content[LeastOf(TextPositions(r))].text

LastResponse == responses[Len(responses)]

(* the tool_use blocks of response n, and the executions made for them *)
BlocksOf(n) == {responses[n].content[j] : j \in ToolUsePositions(responses[n])}
ExecutionsOf(b) == {i \in 1..Len(executed) : executed[i].block = b}

(* execute_tool ran once for every tool_use block of responses 1..k and    *)
(* for nothing else                                                        *)
ExecutedExactly(k) ==
    /\ \A n \in 1..k : \A b \in BlocksOf(n) : Cardinality(ExecutionsOf(b)) = 1
    /\ \A i \in 1..Len(executed) : \E n \in 1..k : executed[i].block \in BlocksOf(n)

(* the model asks for tools k times in a row and then stops otherwise *)
ToolRoundsPattern(k) ==
    /\ Len(responses) = k + 1
    /\ \A n \in 1..k : RequestsTools(responses[n])
    /\ responses[k + 1].stop_reason # "tool_use"

----------------------------------------------------------------------------
(* C1: a query in which the model requests tools in exactly k consecutive  *)
(* responses (0 <= k <= MAX_ROUNDS) and then answers with a non-tool stop  *)
(* reason makes exactly k+1 model calls, executes each tool_use block of   *)
(* those k responses exactly once and nothing else, and returns the text   *)
(* of the last response.                                                   *)
C1_Claim ==
    Completed =>
        \A k \in 0..MAX_ROUNDS :
            ToolRoundsPattern(k) =>
                /\ Len(calls) = k + 1
                /\ ExecutedExactly(k)
                /\ result = Returned(ResponseText(LastResponse))

(* C2: when the model requests tools in every response, generate_response  *)
(* performs exactly MAX_ROUNDS tool rounds and MAX_ROUNDS + 1 model calls, *)
(* the last call carries neither tools nor tool_choice, and the tool_use   *)
(* blocks of the last response are never executed.                         *)
EveryResponseRequestsTools ==
    \A n \in 1..Len(responses) : RequestsTools(responses[n])

RoundsBudgetSpent ==
    /\ round_count = MAX_ROUNDS
    /\ {executed[i].round : i \in 1..Len(executed)} = 1..MAX_ROUNDS
    /\ Len(calls) = MAX_ROUNDS + 1
    /\ "tools" \notin DOMAIN calls[Len(calls)]
    /\ "tool_choice" \notin DOMAIN calls[Len(calls)]
    /\ \A b \in BlocksOf(Len(responses)) : ExecutionsOf(b) = {}

C2_Claim ==
    (Completed /\ EveryResponseRequestsTools) => RoundsBudgetSpent

(* C2 as amended: the same, for a query to which a tool_manager is supplied *)
C2_Amended ==
    (Completed /\ tool_manager /\ EveryResponseRequestsTools) => RoundsBudgetSpent

C2_Witness ==
    /\ Completed /\ tool_manager /\ EveryResponseRequestsTools
    /\ Len(responses) = MAX_ROUNDS + 1
    /\ Len(executed) > MAX_ROUNDS

(* C3: when the first response has a stop reason other than tool_use,      *)
(* generate_response makes exactly one model call, executes no tool and    *)
(* returns that response's text unmodified, with or without tools and      *)
(* tool_manager.                                                           *)
C3_Claim ==
    (Completed /\ responses[1].stop_reason # "tool_use") =>
        /\ Len(calls) = 1
        /\ executed = <<>>
        /\ result = Returned(ResponseText(responses[1]))

(* C4: generate_response always produces a textual answer: whatever tools, *)
(* tool_manager and model responses, a call whose model calls were all     *)
(* answered returns a text block's text of the last response or the        *)
(* fallback string, and never fails on a dangling tool_use request.        *)
C4_Claim ==
    Completed =>
        /\ result.kind = "returned"
        /\ \/ result.text = FALLBACK
           \/ \E j \in TextPositions(LastResponse) :
                result.text = LastResponse.content[j].text

----------------------------------------------------------------------------
(* The tool results the loop has produced so far, in the order produced:   *)
(* those of the user messages already appended, then those of the running  *)
(* round.                                                                  *)
RECURSIVE Flatten(_)
Flatten(seqs) == IF seqs = <<>> THEN <<>> ELSE Head(seqs) \o Flatten(Tail(seqs))

RoundsInMessages == IF messages = <<>> THEN 0 ELSE (Len(messages) - 1) \div 2

ProducedResults ==
    Flatten([r \in 1..RoundsInMessages |-> messages[2 * r + 1].content])
    \o (IF pc = "exec" THEN tool_results ELSE <<>>)

EndsWith(t, s) == Len(s) <= Len(t) /\ SubSeq(t, Len(t) - Len(s) + 1, Len(t)) = s
Contains(t, tok) == \E i \in 1..Len(t) : t[i] = tok

(* C5: at every model call after the first, the messages sent end with an  *)
(* assistant message holding the full content of the previous response     *)
(* followed by a user message of tool_result blocks, and those blocks      *)
(* answer the tool_use blocks of the assistant message one-to-one.         *)
AnswersOneToOne(assistant, user) ==
    LET uses == {j \in 1..Len(assistant.content) : assistant.content[j].type = "tool_use"}
        res  == 1..Len(user.content)
    IN /\ \A i \in res : user.content[i].type = "tool_result"
       /\ \A j \in uses :
            Cardinality({i \in res :
                user.content[i].tool_use_id = assistant.content[j].id}) = 1
       /\ \A i \in res :
            \E j \in uses : user.content[i].tool_use_id = assistant.content[j].id

C5_Theorem ==
    \A n \in 2..Len(calls) :
        LET msgs == calls[n]["messages"]
            last == Len(msgs)
        IN /\ last >= 3
           /\ msgs[last - 1] = [role |-> "assistant", content |-> responses[n - 1].content]
           /\ msgs[last].role = "user"
           /\ AnswersOneToOne(msgs[last - 1], msgs[last])

C5_Witness ==
    /\ Len(calls) = MAX_ROUNDS + 1
    /\ Cardinality(ToolUsePositions(responses[1])) = 2
    /\ TextPositions(responses[2]) # {} /\ ToolUsePositions(responses[2]) # {}

(* C6: every tool_result block the loop produces has the tool_use_id of    *)
(* the tool_use block whose execution produced its content, for any number *)
(* of tool_use blocks in a round and in every round.                       *)
C6_Theorem ==
    LET produced == ProducedResults IN
    /\ Len(produced) = Len(executed)
    /\ \A i \in 1..Len(executed) :
        /\ produced[i].tool_use_id = executed[i].block.id
        /\ EndsWith(produced[i].content, executed[i].outcome.text)

C6_Witness ==
    /\ pc = "done"
    /\ Len(executed) = 2 * MAX_ROUNDS
    /\ executed[1].round = 1 /\ executed[Len(executed)].round = MAX_ROUNDS

(* C7: when execute_tool raises for a tool_use block, the tool_result of   *)
(* that block carries "Tool execution failed" followed by the exception    *)
(* message, the exception does not leave generate_response, the next model *)
(* call is issued with that result, and the query ends with a textual      *)
(* answer.                                                                 *)
FailureText(msg, content) ==
    /\ Contains(content, "Tool execution failed")
    /\ EndsWith(content, msg)
    /\ \E i \in 1..(Len(content) - Len(msg)) : content[i] = "Tool execution failed"

RoundIsSent(r) == pc # "exec" \/ r < round_count

C7_Theorem ==
    LET produced == ProducedResults IN
    /\ Len(produced) = Len(executed)
    /\ \A i \in 1..Len(executed) :
        executed[i].outcome.kind = "raise" =>
            /\ FailureText(executed[i].outcome.text, produced[i].content)
            /\ result.exc \in {"", "APIError"}
            /\ RoundIsSent(executed[i].round) =>
                /\ Len(calls) > executed[i].round
                /\ LET msgs == calls[executed[i].round + 1]["messages"]
                   IN \E j \in 1..Len(msgs[Len(msgs)].content) :
                        msgs[Len(msgs)].content[j] = produced[i]
            /\ Completed => result.kind = "returned"

C7_Witness ==
    /\ Completed
    /\ \E i \in 1..Len(executed) : executed[i].outcome.kind = "raise"
    /\ \E i \in 1..Len(executed) : executed[i].outcome.kind = "ok"
    /\ result.kind = "returned"

(* C8: the messages of the model call that follows k completed tool rounds *)
(* have length 1 + 2k with roles user, then (assistant, user) k times; the *)
(* first call carries exactly one user message holding the query.          *)
C8_Theorem ==
    /\ \A n \in 1..Len(calls) :
        LET msgs == calls[n]["messages"] IN
        /\ Len(msgs) = 1 + 2 * (n - 1)
        /\ \A m \in 1..Len(msgs) :
            msgs[m].role = (IF m % 2 = 1 THEN "user" ELSE "assistant")
        /\ msgs[1] = [role |-> "user", content |-> query]
    /\ pc = "next_call" => Len(calls) = round_count + 1

C8_Witness == pc = "next_call" /\ round_count = MAX_ROUNDS

(* C9: a model call carries tools iff tools were supplied non-empty and    *)
(* fewer than MAX_ROUNDS rounds were completed at the call; tools carried  *)
(* are exactly those supplied, with tool_choice auto, and no call carries  *)
(* tool_choice without tools.                                              *)
C9_Theorem ==
    \A n \in 1..Len(calls) :
        /\ "tools" \in DOMAIN calls[n] <=> (Truthy(tools) /\ n - 1 < MAX_ROUNDS)
        /\ "tools" \in DOMAIN calls[n] =>
            /\ calls[n]["tools"] = tools.val
            /\ "tool_choice" \in DOMAIN calls[n]
            /\ calls[n]["tool_choice"] = [type |-> "auto"]
        /\ "tool_choice" \in DOMAIN calls[n] => "tools" \in DOMAIN calls[n]

C9_Witness == Len(calls) = MAX_ROUNDS + 1 /\ Truthy(tools)

(* C10: once MAX_ROUNDS tool rounds were executed, the response to the     *)
(* next model call is terminal whatever its stop reason: no model call and *)
(* no tool execution follows, and generate_response returns the text of    *)
(* its first text block, or the fallback string if it has none.            *)
BudgetResponseIn == Len(responses) = MAX_ROUNDS + 1

C10_Theorem ==
    /\ [](BudgetResponseIn =>
            /\ pc \in {"loop", "done"}
            /\ Len(calls) = MAX_ROUNDS + 1
            /\ \A b \in BlocksOf(Len(responses)) : ExecutionsOf(b) = {}
            /\ pc = "done" => result = Returned(ResponseText(LastResponse)))
    /\ [][(BudgetResponseIn /\ pc # "done") =>
            /\ pc' = "done"
            /\ calls' = calls
            /\ executed' = executed
            /\ result' = Returned(ResponseText(LastResponse))]_vars

C10_Witness ==
    /\ pc = "done" /\ BudgetResponseIn
    /\ LastResponse.stop_reason = "tool_use"
    /\ ToolUsePositions(LastResponse) # {} /\ TextPositions(LastResponse) = {}
    /\ result = Returned(FALLBACK)

----------------------------------------------------------------------------
(* C11: when a model call of a query fails (the first or a follow-up       *)
(* call), the failure leaves generate_response: the call is not retried,   *)
(* no later model call and no later tool execution is made for the query,  *)
(* and no answer text is returned.                                         *)
CallPending == pc \in {"first_call", "next_call"}

C11_Theorem ==
    /\ []((pc = "done" /\ Len(responses) < Len(calls)) =>
            /\ Len(calls) = Len(responses) + 1
            /\ result = Raised("APIError"))
    /\ [][(CallPending /\ pc' # pc /\ responses' = responses) =>
            /\ pc' = "done"
            /\ result'.kind = "raised"
            /\ calls' = calls
            /\ executed' = executed]_vars
    /\ [][pc = "done" => pc' = "idle"]_vars

C11_Witness ==
    /\ pc = "done" /\ result = Raised("APIError")
    /\ Len(calls) = 2 /\ Len(responses) = 1 /\ executed # <<>>

(* C12: without a tool_manager generate_response makes exactly one model   *)
(* call and executes no tool, even if tools were supplied and the response *)
(* has stop reason tool_use.                                               *)
C12_Theorem ==
    (pc # "idle" /\ ~tool_manager) =>
        /\ Len(calls) = 1
        /\ executed = <<>>
        /\ pc \in {"first_call", "done"}

C12_Witness ==
    /\ pc = "done" /\ ~tool_manager /\ Truthy(tools)
    /\ RequestsTools(responses[1])

(* C13: each tool execution is dispatched with exactly the name and the    *)
(* input mapping of the tool_use block being answered.                     *)
BlockWithId(n, id) ==
    CHOOSE b \in BlocksOf(n) : b.id = id

C13_Theorem ==
    LET produced == ProducedResults IN
    /\ Len(produced) = Len(executed)
    /\ \A i \in 1..Len(executed) :
        /\ \E b \in BlocksOf(executed[i].round) : b.id = produced[i].tool_use_id
        /\ executed[i].name = BlockWithId(executed[i].round, produced[i].tool_use_id).name
        /\ executed[i].input = BlockWithId(executed[i].round, produced[i].tool_use_id).input

C13_Witness ==
    /\ pc = "done"
    /\ \E i, j \in 1..Len(executed) :
        executed[i].name # executed[j].name /\ executed[i].round = executed[j].round

(* C14: when a tool execution returns without raising, the content of its  *)
(* tool_result block sent to the model is exactly the text returned.       *)
C14_Theorem ==
    LET produced == ProducedResults IN
    /\ Len(produced) = Len(executed)
    /\ \A i \in 1..Len(executed) :
        executed[i].outcome.kind = "ok" =>
            /\ produced[i].content = executed[i].outcome.text
            /\ RoundIsSent(executed[i].round) =>
                LET msgs == calls[executed[i].round + 1]["messages"]
                IN \E j \in 1..Len(msgs[Len(msgs)].content) :
                    /\ msgs[Len(msgs)].content[j].tool_use_id = executed[i].block.id
                    /\ msgs[Len(msgs)].content[j].content = executed[i].outcome.text

C14_Witness ==
    /\ pc = "next_call"
    /\ \E i \in 1..Len(executed) : executed[i].outcome.kind = "ok"

(* C15: all model calls of a query carry the same system instructions:     *)
(* the system prompt alone when the history is absent or empty, else the   *)
(* prompt followed by a "Previous conversation:" block with the history.   *)
HistoryGiven == conversation_history.present /\ Len(conversation_history.val) > 0

ExpectedSystem ==
    IF HistoryGiven
    THEN SYSTEM_PROMPT \o <<"\n\nPrevious conversation:\n">> \o conversation_history.val
    ELSE SYSTEM_PROMPT

C15_Theorem ==
    \A n \in 1..Len(calls) : calls[n]["system"] = ExpectedSystem

C15_Witness ==
    /\ Len(calls) = MAX_ROUNDS + 1
    /\ HistoryGiven

----------------------------------------------------------------------------
(* Claims about the tool registry *)

LastRegistryCall == registry_calls[Len(registry_calls)]

CallsOf(op) == {i \in 1..Len(registry_calls) : registry_calls[i].op = op}

(* C19: after reset_sources, last_sources is empty whatever tools were     *)
(* executed before it; in a fresh registry in which no tool has been       *)
(* executed last_sources is empty.                                         *)
C19_Theorem ==
    /\ (registry_calls # <<>> /\ LastRegistryCall.op = "reset_sources") =>
            get_last_sources(registry) = <<>>
    /\ CallsOf("execute_tool") = {} => get_last_sources(registry) = <<>>

C19_Witness ==
    /\ Len(registry) = 2
    /\ Len(registry_calls) = 4
    /\ LastRegistryCall.op = "reset_sources"
    /\ registry_calls[3].op = "execute_tool"
    /\ registry_returned = NoReturn
    /\ \E i \in 1..2 : registry_calls[i].name = registry_calls[3].name

(* C20: after registering N tools, definitions() has length N and its      *)
(* names are the names of the registered tools, in registration order.     *)
OnlyRegistrations ==
    /\ CallsOf("register_tool") = 1..Len(registry_calls)
    /\ \A i, j \in 1..Len(registry_calls) :
        i # j => registry_calls[i].name # registry_calls[j].name

C20_Theorem ==
    OnlyRegistrations =>
        /\ Len(get_tool_definitions(registry)) = Len(registry_calls)
        /\ \A i \in 1..Len(registry_calls) :
            get_tool_definitions(registry)[i].name = registry_calls[i].name

C20_Witness ==
    /\ OnlyRegistrations
    /\ Len(registry_calls) = 3
    /\ get_tool_definitions(registry)[1].name = "get_course_outline"

----------------------------------------------------------------------------
(* Claims about the orchestrator *)

QueryEnded == rag_pc = "ready" /\ queries_done > 0

CallsNamed(name) == {i \in 1..Len(rag_calls) : rag_calls[i] = name}

C18_Theorem ==
    LET produced == ProducedResults IN
    \A i \in 1..Len(executed) :
        RegisteredAt(registry, executed[i].block.name) = {} =>
            /\ executed[i].outcome =
                 [kind |-> "ok",
                  text |-> <<"Tool '", executed[i].block.name, "' not found">>]
            /\ produced[i].tool_use_id = executed[i].block.id
            /\ produced[i].content =
                 <<"Tool '", executed[i].block.name, "' not found">>
            /\ RoundIsSent(executed[i].round) =>
                /\ Len(calls) > executed[i].round
                /\ LET msgs == calls[executed[i].round + 1]["messages"]
                   IN \E j \in 1..Len(msgs[Len(msgs)].content) :
                        msgs[Len(msgs)].content[j] =
                            [type |-> "tool_result",
                             tool_use_id |-> executed[i].block.id,
                             content |-> <<"Tool '", executed[i].block.name,
                                           "' not found">>]

C18_Witness ==
    /\ pc = "next_call"
    /\ \E i \in 1..Len(executed) : executed[i].block.name = "get_weather"

----------------------------------------------------------------------------
(* C21: for a query with a session id the orchestrator appends exactly one *)
(* exchange to that session, made of the session id, the user's original   *)
(* query text and the final answer text, only after the generation loop    *)
(* has returned the answer; a query whose generation fails appends none.   *)
QueryEnds == rag_pc = "generating" /\ rag_pc' = "ready"

C21_Theorem ==
    /\ [][(QueryEnds /\ HasSession(rag_args.session_id) /\ result.kind = "returned") =>
            sessions' = Append(sessions,
                               [session_id |-> rag_args.session_id.val,
                                query |-> <<"What is MCP?">>,
                                answer |-> result.text])]_vars
    /\ [][(QueryEnds /\ result.kind = "raised") => sessions' = sessions]_vars
    /\ [][(QueryEnds /\ ~HasSession(rag_args.session_id)) => sessions' = sessions]_vars
    /\ [][~QueryEnds => sessions' = sessions]_vars

C21_Witness ==
    /\ rag_pc = "ready"
    /\ Len(sessions) = 1
    /\ rag_result.kind = "returned"
    /\ rag_recorded.executions > 0
    /\ sessions[1] = [session_id |-> "session-456", query |-> <<"What is MCP?">>,
                      answer |-> rag_result.response]

----------------------------------------------------------------------------
(* Claims about the search tool *)

SearchJustRan == registry_calls # <<>> /\ LastRegistryCall.op = "execute_tool"

(* C22: when the SearchResults of the backend has its error set, the       *)
(* search tool returns exactly that error text, whatever the documents     *)
(* are, and records no new sources.                                        *)
C22_Theorem ==
    /\ []((SearchJustRan /\ LastRegistryCall.results.error.present) =>
            registry_returned = [kind |-> "ok",
                                 text |-> <<LastRegistryCall.results.error.val>>])
    /\ [][(registry_calls' # registry_calls
           /\ registry_calls'[Len(registry_calls')].op = "execute_tool"
           /\ registry_calls'[Len(registry_calls')].results.error.present) =>
            get_last_sources(registry') = get_last_sources(registry)]_vars

C22_Witness ==
    /\ Len(registry_calls) = 2
    /\ SearchJustRan
    /\ LastRegistryCall.results.error.present
    /\ LastRegistryCall.results.documents # <<>>
    /\ get_last_sources(registry) # <<>>

(* C23: when the backend returns no documents and no error, the output of  *)
(* the search tool contains "No relevant content found" and names every    *)
(* filter that was given: the course name, and "lesson N" for lesson N.    *)
C23_Theorem ==
    (/\ SearchJustRan
     /\ ~LastRegistryCall.results.error.present
     /\ LastRegistryCall.results.documents = <<>>) =>
        /\ registry_returned.kind = "ok"
        /\ Contains(registry_returned.text, "No relevant content found")
        /\ LastRegistryCall.input.course_name.present =>
            Contains(registry_returned.text, LastRegistryCall.input.course_name.val)
        /\ LastRegistryCall.input.lesson_number.present =>
            Contains(registry_returned.text,
                     "lesson " \o ToString(LastRegistryCall.input.lesson_number.val))

C23_Witness ==
    /\ SearchJustRan
    /\ ~LastRegistryCall.results.error.present
    /\ LastRegistryCall.results.documents = <<>>
    /\ LastRegistryCall.input.course_name.present
    /\ LastRegistryCall.input.lesson_number.present

(* C24: after any search execution that returns zero documents,            *)
(* last_sources of the registry is empty, also when an earlier search      *)
(* execution had recorded sources and no reset happened in between.        *)
C24_Claim ==
    (SearchJustRan /\ LastRegistryCall.results.documents = <<>>) =>
        get_last_sources(registry) = <<>>

(* C24 as amended: a search execution that returns zero documents leaves   *)
(* last_sources as it was, so it is empty when no execution has recorded   *)
(* sources since the registry was created or last reset.                   *)
RecordedSinceReset ==
    \E i \in 1..Len(registry_calls) :
        /\ registry_calls[i].op = "execute_tool"
        /\ registry_calls[i].results.documents # <<>>
        /\ ~registry_calls[i].results.error.present
        /\ \A j \in i..Len(registry_calls) : registry_calls[j].op # "reset_sources"

C24_Amended ==
    /\ []((SearchJustRan /\ LastRegistryCall.results.documents = <<>>
           /\ ~RecordedSinceReset) => get_last_sources(registry) = <<>>)
    /\ [][(registry_calls' # registry_calls
           /\ registry_calls'[Len(registry_calls')].op = "execute_tool"
           /\ registry_calls'[Len(registry_calls')].results.documents = <<>>) =>
            get_last_sources(registry') = get_last_sources(registry)]_vars

C24_Witness ==
    /\ Len(registry_calls) = 2
    /\ SearchJustRan
    /\ LastRegistryCall.results.documents = <<>>
    /\ ~LastRegistryCall.results.error.present
    /\ Len(get_last_sources(registry)) = 2

----------------------------------------------------------------------------
(* Claims about the query endpoint *)

CallsMade(e, op) == {k \in 1..Len(e.calls) : e.calls[k].op = op}

(* C25: any exception raised while POST /api/query is processed is mapped  *)
(* to an HTTP 500 response whose detail is the exception message; the      *)
(* exception never escapes the endpoint and no 200 response is produced    *)
(* for that request.                                                       *)
C25_Theorem ==
    \A i \in 1..Len(api_responses) :
        LET e == api_responses[i] IN
        /\ e.response.kind = "response"
        /\ e.raised # "" =>
            /\ e.response.status = 500
            /\ e.response.detail = e.raised

C25_Witness ==
    /\ Len(api_responses) = 2
    /\ api_responses[1].raised = "Session store unavailable"
    /\ api_responses[2].raised = "Internal error"
    /\ api_responses[2].request.session_id = Some("existing-session")

(* C26: POST /api/query creates a new session exactly when the request     *)
(* carries no session id; with a session id supplied no session is         *)
(* created and the query is run under the supplied id; in both cases the   *)
(* session id in the response is the id the query was run under.           *)
RunUnder(e) == e.calls[CHOOSE k \in CallsMade(e, "query") : TRUE].session_id

C26_Claim ==
    \A i \in 1..Len(api_responses) :
        LET e == api_responses[i] IN
        /\ CallsMade(e, "create_session") # {} <=> ~e.request.session_id.present
        /\ (e.request.session_id.present /\ CallsMade(e, "query") # {}) =>
            RunUnder(e) = e.request.session_id.val
        /\ e.response.status = 200 =>
            /\ Cardinality(CallsMade(e, "query")) = 1
            /\ e.response.session_id = RunUnder(e)

(* C26 as amended: a new session is created exactly when the request       *)
(* carries no session id or an empty one, and the query is then run under  *)
(* the created id; with a non-empty session id no session is created and   *)
(* the query is run under that id; the session id of a 200 response is the *)
(* id the query was run under.                                             *)
NoIdGiven(e) == ~e.request.session_id.present \/ e.request.session_id.val = ""

C26_Amended ==
    \A i \in 1..Len(api_responses) :
        LET e == api_responses[i] IN
        /\ CallsMade(e, "create_session") # {} <=> NoIdGiven(e)
        /\ Cardinality(CallsMade(e, "create_session")) <= 1
        /\ (~NoIdGiven(e) /\ CallsMade(e, "query") # {}) =>
            RunUnder(e) = e.request.session_id.val
        /\ (NoIdGiven(e) /\ CallsMade(e, "query") # {}) =>
            /\ RunUnder(e) # ""
            /\ \E k \in 1..Len(api_sessions) : api_sessions[k] = RunUnder(e)
        /\ e.response.status = 200 =>
            /\ Cardinality(CallsMade(e, "query")) = 1
            /\ e.response.session_id = RunUnder(e)

C26_Witness ==
    /\ Len(api_responses) = 3
    /\ api_responses[1].request.session_id = Some("")
    /\ api_responses[1].response.status = 200
    /\ api_responses[1].response.session_id = "session_1"
    /\ api_responses[2].request.session_id = Some("existing-session")
    /\ api_responses[2].response.status = 200
    /\ api_responses[2].response.session_id = "existing-session"
    /\ api_responses[3].request.session_id = NoSession
    /\ api_responses[3].response.session_id = "session_2"

----------------------------------------------------------------------------
(* Claims about the rounds of the generation loop *)

(* C27: in every reachable state 0 <= round_count <= MAX_ROUNDS; a query   *)
(* performs at most MAX_ROUNDS tool-execution rounds and at most           *)
(* MAX_ROUNDS + 1 model calls.                                             *)
C27_Theorem ==
    /\ round_count \in 0..MAX_ROUNDS
    /\ Len(calls) <= MAX_ROUNDS + 1
    /\ \A i \in 1..Len(executed) : executed[i].round \in 1..MAX_ROUNDS
    /\ RoundsInMessages <= MAX_ROUNDS

C27_Witness ==
    /\ pc = "done"
    /\ round_count = MAX_ROUNDS
    /\ Len(calls) = MAX_ROUNDS + 1
    /\ RequestsTools(LastResponse)

(* C28: if every model call and every tool execution returns or raises,    *)
(* generate_response eventually returns or raises, whatever the model      *)
(* answers and whatever the tools do.                                      *)
C28_Theorem == (pc # "idle") ~> (pc = "done")

C28_Witness ==
    /\ pc = "done"
    /\ Len(responses) = MAX_ROUNDS + 1
    /\ \A n \in 1..Len(responses) : RequestsTools(responses[n])
    /\ Len(executed) = 2 * MAX_ROUNDS
    /\ \A i \in 1..Len(executed) : executed[i].outcome.kind = "raise"

(* C29: model calls and tool rounds alternate: a tool is executed only     *)
(* right after a response with stop reason tool_use and a tool_use block,  *)
(* each round is followed by exactly one model call before any further     *)
(* execution, and no tool is executed before the first model call or       *)
(* after the answer is returned.                                           *)
C29_Theorem ==
    /\ [][Len(executed') > Len(executed) =>
            /\ Len(responses) = Len(calls)
            /\ LastResponse.stop_reason = "tool_use"
            /\ ToolUsePositions(LastResponse) # {}
            /\ executed'[Len(executed')].round = Len(responses)
            /\ executed'[Len(executed')].block \in BlocksOf(Len(responses))]_vars
    /\ [](\A i \in 1..Len(executed) :
            /\ executed[i].round <= Len(responses)
            /\ (pc # "exec" => executed[i].round < Len(calls))
            /\ \A j \in 1..i : executed[j].round <= executed[i].round)
    /\ [](pc = "first_call" => executed = <<>>)
    /\ [][pc = "done" => Len(executed') <= Len(executed)]_vars

C29_Witness ==
    /\ pc = "done"
    /\ result.kind = "returned"
    /\ Len(calls) = MAX_ROUNDS + 1
    /\ \E i, j \in 1..Len(executed) : executed[i].round = 1 /\ executed[j].round = 2

(* C30: within a round the tool_result blocks of the user message are in   *)
(* the order of the tool_use blocks of the response they answer.           *)
C30_Theorem ==
    /\ pc \in {"exec", "next_call"} =>
        \A i \in 1..Len(tool_results) :
            tool_results[i].tool_use_id = tool_use_blocks[i].id
    /\ \A n \in 2..Len(calls) :
        LET msgs == calls[n]["messages"]
            sent == msgs[Len(msgs)].content
            asked == ToolUseBlocks(responses[n - 1])
        IN /\ Len(sent) = Len(asked)
           /\ \A i \in 1..Len(sent) : sent[i].tool_use_id = asked[i].id

C30_Witness ==
    /\ Len(calls) = 2
    /\ Len(ToolUseBlocks(responses[1])) = MaxBlocks

----------------------------------------------------------------------------
(* Claims about the messages and the results of a round *)

(* the tool_result blocks sent after round r, and the execution made for   *)
(* a tool_use block                                                        *)
SentResults(r) ==
    LET msgs == calls[r + 1]["messages"] IN msgs[Len(msgs)].content

ExecutionOf(b) == executed[CHOOSE i \in ExecutionsOf(b) : TRUE]

(* C31: when one tool-use block of a round raises, every other block of    *)
(* the round is still executed exactly once and gets its own result, and   *)
(* the failure text is only in the result of the block that failed.        *)
C31_Theorem ==
    \A r \in 1..(Len(calls) - 1) :
        LET asked == ToolUseBlocks(responses[r])
            sent == SentResults(r)
        IN /\ Len(sent) = Len(asked)
           /\ \A i \in 1..Len(asked) :
                /\ Cardinality(ExecutionsOf(asked[i])) = 1
                /\ ExecutionOf(asked[i]).round = r
                /\ Contains(sent[i].content, "Tool execution failed")
                       <=> ExecutionOf(asked[i]).outcome.kind = "raise"
                /\ ExecutionOf(asked[i]).outcome.kind = "ok" =>
                       sent[i].content = ExecutionOf(asked[i]).outcome.text

C31_Witness ==
    /\ Len(calls) >= 2
    /\ Len(ToolUseBlocks(responses[1])) = 2
    /\ ExecutionOf(ToolUseBlocks(responses[1])[1]).outcome.kind = "raise"
    /\ ExecutionOf(ToolUseBlocks(responses[1])[2]).outcome.kind = "ok"
    /\ ~Contains(SentResults(1)[2].content, "Tool execution failed")

(* C32: the messages grow monotonically within a query: those of call      *)
(* n + 1 are those of call n followed by exactly two more messages, what   *)
(* was sent is never changed, reordered or removed, and the first message  *)
(* is always the user message holding the query.                           *)
IsPrefix(s, t) == Len(s) <= Len(t) /\ SubSeq(t, 1, Len(s)) = s

C32_Theorem ==
    /\ \A n \in 1..Len(calls) :
        calls[n]["messages"][1] = [role |-> "user", content |-> query]
    /\ \A n \in 1..(Len(calls) - 1) :
        /\ Len(calls[n + 1]["messages"]) = Len(calls[n]["messages"]) + 2
        /\ IsPrefix(calls[n]["messages"], calls[n + 1]["messages"])
    /\ pc \in {"loop", "exec", "next_call"} =>
        /\ IsPrefix(calls[Len(calls)]["messages"], messages)
        /\ IsPrefix(calls[1]["messages"], messages)

C32_Witness ==
    /\ Len(calls) = MAX_ROUNDS + 1
    /\ Len(calls[3]["messages"]) = 5
    /\ IsPrefix(calls[2]["messages"], calls[3]["messages"])

(* C33: every tool-result block the loop appends has the fields            *)
(* tool_use_id, content and is_error, and is_error is set on the results   *)
(* of the executions that raised.                                          *)
C33_Claim ==
    LET produced == ProducedResults IN
    \A i \in 1..Len(produced) :
        /\ {"tool_use_id", "content", "is_error"} \subseteq DOMAIN produced[i]
        /\ produced[i]["is_error"] = (executed[i].outcome.kind = "raise")

----------------------------------------------------------------------------
(* Claims about the registry *)

(* the registrations of a name so far, and the last of them *)
RegistrationsOf(name) ==
    {i \in CallsOf("register_tool") : registry_calls[i].name = name}

LastRegistrationOf(name) ==
    registry_calls[CHOOSE i \in RegistrationsOf(name) :
                       \A j \in RegistrationsOf(name) : j <= i]

DefinitionsNamed(name) ==
    {i \in 1..Len(get_tool_definitions(registry)) :
        get_tool_definitions(registry)[i].name = name}

(* C34: registering a tool under a name already registered replaces the    *)
(* earlier tool: execute dispatches the name to the tool registered last   *)
(* and to no other, and the definitions list the name exactly once.        *)
C34_Theorem ==
    \A n \in 1..Len(ToolNames) :
        LET name == ToolNames[n] IN
        RegistrationsOf(name) # {} =>
            /\ Cardinality(DefinitionsNamed(name)) = 1
            /\ Cardinality(RegisteredAt(registry, name)) = 1
            /\ \A k \in RegisteredAt(registry, name) :
                /\ registry[k].version = LastRegistrationOf(name).version
                /\ \A r \in execute_tool(registry, name, ToolInputs[n], 0) :
                    /\ r.outcome.text # NotFoundText(name)
                    /\ \A m \in 1..Len(registry) : m # k => r.registry[m] = registry[m]
                    /\ r.registry[k].version = LastRegistrationOf(name).version
                    /\ r.recorded.present => r.registry[k].last_sources = r.recorded.val

C34_Witness ==
    /\ Len(registry_calls) = 3
    /\ registry_calls[1].op = "register_tool" /\ registry_calls[2].op = "register_tool"
    /\ registry_calls[1].name = registry_calls[2].name
    /\ registry_calls[1].version # registry_calls[2].version
    /\ registry_calls[3] = [op |-> "execute_tool", name |-> registry_calls[1].name]
    /\ Len(registry) = 1
    /\ registry[1].version = registry_calls[2].version
    /\ registry[1].last_sources # <<>>

(* C35: last_sources holds the sources of all tool executions of the       *)
(* running query: when several executions, in one round or in two, by one  *)
(* tool or by several, each recorded sources, it contains the sources of   *)
(* every one of them.                                                      *)
HoldsSource(src) ==
    \E k \in 1..Len(get_last_sources(registry)) : get_last_sources(registry)[k] = src

C35_Claim ==
    rag_pc = "generating" =>
        \A i \in 1..Len(rag_recorded.sources) : HoldsSource(rag_recorded.sources[i])

(* the executions of the running query that recorded sources, and what     *)
(* the i-th of them recorded                                               *)
Recording(i) ==
    /\ executed[i].outcome.kind = "ok"
    /\ RegisteredAt(registry, executed[i].name) # {}

RecordedBy(i) == Source(executed[i].name, 10 * (queries_done + 1) + i)

LastRecordingOfItsTool(i) ==
    /\ Recording(i)
    /\ \A j \in (i + 1)..Len(executed) :
        Recording(j) => executed[j].name # executed[i].name

(* C35 as amended: last_sources contains, for every tool that recorded     *)
(* sources in the running query, the sources of that tool's most recent    *)
(* recording execution; the sources of different tools are aggregated,     *)
(* those of an earlier execution of the same tool are overwritten.         *)
C35_Amended ==
    rag_pc = "generating" =>
        /\ \A i \in 1..Len(executed) :
            LastRecordingOfItsTool(i) => HoldsSource(RecordedBy(i))
        /\ \A i \in 1..Len(executed) :
            (Recording(i) /\ ~LastRecordingOfItsTool(i)) => ~HoldsSource(RecordedBy(i))
        /\ \A i \in 1..Len(executed) :
            Recording(i) =>
                \E j \in 1..Len(rag_recorded.sources) :
                    rag_recorded.sources[j] = RecordedBy(i)

C35_Witness ==
    /\ rag_pc = "generating" /\ pc = "done"
    /\ \E i, j \in 1..Len(executed) :
        /\ executed[i].name # executed[j].name
        /\ LastRecordingOfItsTool(i) /\ LastRecordingOfItsTool(j)
        /\ HoldsSource(RecordedBy(i)) /\ HoldsSource(RecordedBy(j))
    /\ \E i \in 1..Len(executed) : Recording(i) /\ ~LastRecordingOfItsTool(i)

----------------------------------------------------------------------------
(* Claims about queries running side by side *)

(* what a model call of thread t may carry if nothing of the other query   *)
(* is in it: the thread's own query, the content of its own responses, and *)
(* results for its own tool_use blocks                                     *)
OwnBlocks(t) ==
    UNION {{threads[t].responses[n].content[j] :
              j \in ToolUsePositions(threads[t].responses[n])} :
           n \in 1..Len(threads[t].responses)}

OwnBlockIds(t) == {b.id : b \in OwnBlocks(t)}

OwnResultTexts(t) ==
    UNION {{ToolResultText(o) : o \in ExecOutcomes(b.name)} : b \in OwnBlocks(t)}

OwnMessage(t, m, msg) ==
    IF m = 1
    THEN msg = [role |-> "user", content |-> ThreadQuery(t)]
    ELSE IF m % 2 = 0
    THEN /\ msg.role = "assistant"
         /\ \E n \in 1..Len(threads[t].responses) :
                msg.content = threads[t].responses[n].content
    ELSE /\ msg.role = "user"
         /\ \A i \in 1..Len(msg.content) :
                /\ msg.content[i].tool_use_id \in OwnBlockIds(t)
                /\ msg.content[i].content \in OwnResultTexts(t)

OwnSystem(t) ==
    IF Truthy(threads[t].conversation_history)
    THEN SYSTEM_PROMPT \o <<"\n\nPrevious conversation:\n">>
         \o threads[t].conversation_history.val
    ELSE SYSTEM_PROMPT

(* C36: the generation loop keeps no state across queries: in any          *)
(* interleaving of two generate_response calls on one generator the        *)
(* messages, system instructions and tools of the model calls of one query *)
(* hold nothing of the other query, and the base parameters stay model,    *)
(* temperature 0 and max_tokens 800.                                       *)
C36_Theorem ==
    /\ base_params = [model |-> MODEL, temperature |-> 0, max_tokens |-> 800]
    /\ \A t \in Threads : \A n \in 1..Len(threads[t].calls) :
        LET call == threads[t].calls[n] IN
        /\ call["model"] = MODEL /\ call["temperature"] = 0 /\ call["max_tokens"] = 800
        /\ call["system"] = OwnSystem(t)
        /\ \A m \in 1..Len(call["messages"]) : OwnMessage(t, m, call["messages"][m])
        /\ "tools" \in DOMAIN call =>
            /\ Truthy(threads[t].tools)
            /\ call["tools"] = threads[t].tools.val
        /\ DOMAIN call \subseteq {"model", "temperature", "max_tokens", "messages",
                                  "system", "tools", "tool_choice"}

C36_Witness ==
    /\ threads[1].pc = "next_call" /\ threads[2].pc = "next_call"
    /\ Len(threads[1].calls) = 3 /\ Len(threads[2].calls) = 2
    /\ Truthy(threads[1].tools) /\ ~Truthy(threads[2].tools)
    /\ Truthy(threads[2].conversation_history)
    /\ ~Truthy(threads[1].conversation_history)

----------------------------------------------------------------------------
(* Claims about the edges of the tool loop *)

(* a response with stop reason tool_use and no tool_use block *)
EmptyToolRequest(r) == r.stop_reason = "tool_use" /\ ToolUsePositions(r) = {}

(* C37: when a response has stop reason tool_use and no tool_use block,    *)
(* and a dispatcher is supplied, the loop makes no tool round, appends no  *)
(* message, makes no further model call and returns the text of that       *)
(* response, or the fallback string.                                       *)
C37_Theorem ==
    \A k \in 1..Len(responses) :
        (tool_manager /\ EmptyToolRequest(responses[k])) =>
            /\ Len(responses) = k /\ Len(calls) = k
            /\ pc \in {"loop", "done"}
            /\ round_count = k - 1
            /\ \A i \in 1..Len(executed) : executed[i].round < k
            /\ messages = calls[k]["messages"]
            /\ pc = "done" =>
                /\ result.kind = "returned"
                /\ result.text = ResponseText(responses[k])

C37_Witness ==
    /\ pc = "done" /\ tool_manager
    /\ Len(responses) = 2
    /\ EmptyToolRequest(responses[2])
    /\ TextPositions(responses[2]) # {}
    /\ result.text = responses[2].content[1].text

(* C38: when a dispatcher is supplied and the tools are absent or empty    *)
(* and the model still answers with stop reason tool_use, the loop         *)
(* executes the requested tool_use blocks for up to MAX_ROUNDS rounds and  *)
(* no model call of the query carries tools or a tool choice.              *)
RequestsToolsUpTo(n) == \A k \in 1..n : RequestsTools(responses[k])

C38_Theorem ==
    (pc # "idle" /\ tool_manager /\ ~Truthy(tools)) =>
        /\ \A n \in 1..Len(calls) :
            "tools" \notin DOMAIN calls[n] /\ "tool_choice" \notin DOMAIN calls[n]
        /\ \A n \in 1..Len(responses) :
            (n <= MAX_ROUNDS /\ RequestsToolsUpTo(n) /\ pc \in {"next_call", "done"}) =>
                /\ Len(calls) > n
                /\ \A b \in BlocksOf(n) : Cardinality(ExecutionsOf(b)) = 1
        /\ \A i \in 1..Len(executed) : executed[i].round <= MAX_ROUNDS

C38_Witness ==
    /\ pc = "done" /\ tool_manager
    /\ tools = Some(<<>>)
    /\ Len(calls) = MAX_ROUNDS + 1
    /\ {executed[i].round : i \in 1..Len(executed)} = 1..MAX_ROUNDS

(* C39: the text extraction is the same on both exit paths: the text       *)
(* returned for a terminal response that is the first response of the      *)
(* query is what would be returned if the response ended a tool loop, the  *)
(* text of its first text-bearing block or the fallback string.            *)
OnDirectPath ==
    /\ pc = "done" /\ Len(responses) = 1
    /\ ~EntersToolLoop(responses[1], tool_manager)

C39_Claim ==
    OnDirectPath => result = ExtractTextResponse(responses[1])

====
